---- MODULE Spec2Model ----
(***************************************************************************)
(* silverbullet.robot.Robot: a name-indexed handle over one body of a      *)
(* rigid-body physics engine.  The engine is the environment: its state is *)
(* the body's topology, base pose, velocities and contact coefficients.    *)
(* Every method of the handle is one action; the engine calls the method   *)
(* issues are recorded in `calls`, what it returns or raises in `ret`.     *)
(* Lengths are in hundredths of a unit, so 0.05 is 5 and -0.3 is -30.      *)
(***************************************************************************)
EXTENDS Integers, Sequences, FiniteSets, TLC

VARIABLES
    nr_joints,   \* engine: number of joints of the body
    basePos,     \* engine: world position of the base
    baseOrn,     \* engine: world orientation of the base (quaternion)
    baseVel,     \* engine: <<linear, angular>> velocity of the body
    contact,     \* engine: <<contact damping, contact stiffness>>
    joints,      \* Robot.joints
    links,       \* Robot.links
    root_link,   \* Robot.root_link
    pc,          \* "new" before __post_init__ has run, "ready" after
    op,          \* the last method called, with its arguments
    calls,       \* the engine calls that method issued, in order
    ret          \* what that method returned or raised

engine == <<nr_joints, basePos, baseOrn, baseVel, contact>>
handle == <<joints, links, root_link, pc>>
vars == <<nr_joints, basePos, baseOrn, baseVel, contact,
          joints, links, root_link, pc, op, calls, ret>>

----
\* Bounds of the model.

MaxJoints == 2
NumVaryFields == 2

\* Optional values: None is the empty sequence, a set value v is <<v>>.
None == <<>>
Some(v) == <<v>>

BasePositions == {<<0, 0, 0>>, <<0, 0, 1>>, <<1, 1, -30>>, <<1, 1, 31>>}
Paddings == {0, 5}
Velocities == {<<<<0, 0, 0>>, <<0, 0, 0>>>>, <<<<1, 0, 0>>, <<0, 0, 2>>>>}
Contacts == {-1, 0, 2} \X {-1, 0, 2}

Identity == <<0, 0, 0, 1>>
FlipX == <<1, 0, 0, 0>>

JointNameTable == <<"hinge", "knee", "ankle", "toe", "nail">>
LinkNameTable == <<"arm", "shin", "foot", "tip", "end">>
LinkOffsetZ == <<-30, 1, -2, 3, -4>>
\* The names a client asks for: the root, the first and the last joint and
\* link a body can have, and a name no body has.
Names == {"base", "ghost", JointNameTable[1], LinkNameTable[1],
          JointNameTable[MaxJoints], LinkNameTable[MaxJoints]}

Call(fn, args) == [fn |-> fn, args |-> args]
Ok(v) == [kind |-> "ok", value |-> v]
Raise(e, msg) == [kind |-> e, value |-> msg]
KeyError(name) == Raise("KeyError", name)

Min(S) == CHOOSE x \in S : \A y \in S : x <= y
Add(u, v) == <<u[1] + v[1], u[2] + v[2], u[3] + v[3]>>

----
\* The engine, as the handle sees it through ClientWithBody.

Bytes(s) == [bytes |-> s]
decode(b) == b.bytes

getNumJoints == nr_joints

getBodyInfo == <<Bytes("base"), Bytes("body")>>

getJointInfo(jointIndex) ==
    <<jointIndex, Bytes(JointNameTable[jointIndex + 1]), 0, 7 + jointIndex,
      6 + jointIndex, 1, 0, 0, 0, -1, 0, 0,
      Bytes(LinkNameTable[jointIndex + 1]),
      <<0, 0, 1>>, <<0, 0, 0>>, Identity, jointIndex - 1>>

getBasePositionAndOrientation == <<basePos, baseOrn>>

getBaseVelocity == <<baseVel[1], baseVel[2]>>

Rotate(q, v) == IF q = Identity THEN v ELSE <<v[1], -v[2], -v[3]>>

LinkWorldPosition(linkIndex) ==
    Add(basePos, Rotate(baseOrn, <<0, 0, LinkOffsetZ[linkIndex + 1]>>))

getLinkState(linkIndex, computeLinkVelocity) ==
    LET frame == <<LinkWorldPosition(linkIndex), baseOrn,
                   <<0, 0, 0>>, Identity,
                   LinkWorldPosition(linkIndex), baseOrn>>
    IN  IF computeLinkVelocity
        THEN frame \o <<baseVel[1], baseVel[2]>>
        ELSE frame

getJointState(jointIndex) ==
    <<jointIndex, 0, <<0, 0, 0, 0, 0, 0>>, jointIndex + 1>>

getDynamicsInfo(linkIndex) ==
    <<linkIndex + 2, 1, <<1, 1, 1>>, <<0, 0, 0>>, Identity, 0, 0, 0,
      contact[1], contact[2]>>

----
\* Robot.__post_init__

ROOT == -1

\* LoopBody with the two names exchanged.
LoopBody_swapped(idx, st) ==
    LET result == getJointInfo(idx)
        joint_name == decode(result[13])
        link_name == decode(result[2])
    IN  [links |-> (link_name :> idx) @@ st.links,
         joints |-> (joint_name :> idx) @@ st.joints,
         calls |-> Append(st.calls, Call("getJointInfo", <<idx>>))]

LoopBody(idx, st) ==
    LET result == getJointInfo(idx)
        joint_name == decode(result[2])
        link_name == decode(result[13])
    IN  [links |-> (link_name :> idx) @@ st.links,
         joints |-> (joint_name :> idx) @@ st.joints,
         calls |-> Append(st.calls, Call("getJointInfo", <<idx>>))]

RECURSIVE Loop(_, _, _)
Loop(idx, n, st) ==
    IF idx >= n THEN st ELSE Loop(idx + 1, n, LoopBody(idx, st))

post_init_result ==
    LET nr == getNumJoints
        root_name == decode(getBodyInfo[1])
        st == Loop(0, nr, [links |-> (root_name :> ROOT),
                           joints |-> <<>>,
                           calls |-> <<Call("getNumJoints", <<>>),
                                       Call("getBodyInfo", <<>>)>>])
    IN  [links |-> st.links, joints |-> st.joints,
         root_link |-> root_name, calls |-> st.calls]

post_init ==
    /\ pc = "new"
    /\ LET r == post_init_result
       IN  /\ links' = r.links
           /\ joints' = r.joints
           /\ root_link' = r.root_link
           /\ calls' = r.calls
    /\ pc' = "ready"
    /\ op' = [name |-> "__post_init__", args |-> <<>>]
    /\ ret' = Ok(None)
    /\ UNCHANGED engine

----
\* A method call on a constructed handle: `r` is what the method did, the
\* engine applies the commands among the calls it received.

ResetCalls(cs) ==
    {i \in 1..Len(cs) : cs[i].fn = "resetBasePositionAndOrientation"}

Do(o, r) ==
    /\ pc = "ready"
    /\ op' = o
    /\ calls' = r.calls
    /\ ret' = r.ret
    /\ IF ResetCalls(r.calls) = {}
       THEN UNCHANGED <<basePos, baseOrn>>
       ELSE LET last == r.calls[CHOOSE i \in ResetCalls(r.calls) :
                                    \A j \in ResetCalls(r.calls) : j <= i]
            IN  /\ basePos' = last.args.posObj
                /\ baseOrn' = last.args.ornObj
    /\ UNCHANGED <<nr_joints, baseVel, contact, joints, links, root_link, pc>>

----
\* Robot.joint_state

JointState(position, velocity, applied_torque) ==
    [position |-> position, velocity |-> velocity,
     applied_torque |-> applied_torque]

joint_state(name) ==
    IF name \notin DOMAIN joints
    THEN [calls |-> <<>>, ret |-> KeyError(name)]
    ELSE LET joint_id == joints[name]
             r == getJointState(joint_id)
         IN  [calls |-> <<Call("getJointState", [jointIndex |-> joint_id])>>,
              ret |-> Ok(JointState(r[1], r[2], r[4]))]

----
\* Robot.link_state

Pose(vector, quaternion) == [vector |-> vector, quaternion |-> quaternion]

LinkState(pose, linear_velocity, angular_velocity) ==
    [pose |-> pose, linear_velocity |-> linear_velocity,
     angular_velocity |-> angular_velocity]

\* link_query taking the base path for link 0 as well.
link_query_off_by_one(link_id, compute_velocity) ==
    IF link_id <= 0
    THEN LET b == getBasePositionAndOrientation
             v == getBaseVelocity
         IN  [calls |-> <<Call("getBasePositionAndOrientation", <<>>)>>
                        \o (IF compute_velocity
                            THEN <<Call("getBaseVelocity", <<>>)>>
                            ELSE <<>>),
              pos |-> b[1], ori |-> b[2],
              a_vel |-> IF compute_velocity THEN Some(v[1]) ELSE None,
              l_vel |-> IF compute_velocity THEN Some(v[2]) ELSE None]
    ELSE LET state == getLinkState(link_id, compute_velocity)
         IN  [calls |-> <<Call("getLinkState",
                               [linkIndex |-> link_id,
                                computeLinkVelocity |-> compute_velocity])>>,
              pos |-> state[1], ori |-> state[2],
              l_vel |-> IF compute_velocity THEN Some(state[7]) ELSE None,
              a_vel |-> IF compute_velocity THEN Some(state[8]) ELSE None]

\* Lines 126-139: the engine queries, and the locals they bind.  A local the
\* branch leaves unbound is None here; line 141 overwrites it before use.
link_query(link_id, compute_velocity) ==
    IF link_id = -1
    THEN LET b == getBasePositionAndOrientation
             v == getBaseVelocity
         IN  [calls |-> <<Call("getBasePositionAndOrientation", <<>>)>>
                        \o (IF compute_velocity
                            THEN <<Call("getBaseVelocity", <<>>)>>
                            ELSE <<>>),
              pos |-> b[1], ori |-> b[2],
              a_vel |-> IF compute_velocity THEN Some(v[1]) ELSE None,
              l_vel |-> IF compute_velocity THEN Some(v[2]) ELSE None]
    ELSE LET state == getLinkState(link_id, compute_velocity)
         IN  [calls |-> <<Call("getLinkState",
                               [linkIndex |-> link_id,
                                computeLinkVelocity |-> compute_velocity])>>,
              pos |-> state[1], ori |-> state[2],
              l_vel |-> IF compute_velocity THEN Some(state[7]) ELSE None,
              a_vel |-> IF compute_velocity THEN Some(state[8]) ELSE None]

\* link_result reporting zero velocities where none were asked for.
link_result_zero(q, compute_velocity) ==
    LET a_vel == IF ~compute_velocity THEN Some(<<0, 0, 0>>) ELSE q.a_vel
        l_vel == IF ~compute_velocity THEN Some(<<0, 0, 0>>) ELSE q.l_vel
        pose == Pose(q.pos, q.ori)
    IN  LinkState(pose, l_vel, a_vel)

\* Lines 141-145.
link_result(q, compute_velocity) ==
    LET a_vel == IF ~compute_velocity THEN None ELSE q.a_vel
        l_vel == IF ~compute_velocity THEN None ELSE q.l_vel
        pose == Pose(q.pos, q.ori)
    IN  LinkState(pose, l_vel, a_vel)

link_state(name, compute_velocity) ==
    IF name \notin DOMAIN links
    THEN [calls |-> <<>>, ret |-> KeyError(name)]
    ELSE LET q == link_query(links[name], compute_velocity)
         IN  [calls |-> q.calls, ret |-> Ok(link_result(q, compute_velocity))]

----
\* Robot.set_joint_position, set_joint_velocity, set_joint_torque

DefaultKp == "0.1"
DefaultKd == "1.0"
DefaultForce == "100000.0"

set_joint_position(name, target, kp, kd, force) ==
    IF name \notin DOMAIN joints
    THEN [calls |-> <<>>, ret |-> KeyError(name)]
    ELSE LET joint_id == joints[name]
         IN  [calls |-> <<Call("setJointMotorControl2",
                               [jointIndex |-> joint_id,
                                controlMode |-> "POSITION_CONTROL",
                                targetPosition |-> target,
                                positionGain |-> kp,
                                velocityGain |-> kd,
                                force |-> force])>>,
              ret |-> Ok(None)]

set_joint_velocity(name, target, force) ==
    IF name \notin DOMAIN joints
    THEN [calls |-> <<>>, ret |-> KeyError(name)]
    ELSE LET joint_id == joints[name]
         IN  [calls |-> <<Call("setJointMotorControl2",
                               [jointIndex |-> joint_id,
                                controlMode |-> "VELOCITY_CONTROL",
                                targetVelocity |-> target,
                                force |-> force])>>,
              ret |-> Ok(None)]

\* set_joint_torque looking the name up with a default instead of failing.
set_joint_torque_lenient(name, force) ==
    LET joint_id == IF name \in DOMAIN joints THEN joints[name] ELSE -1
    IN  [calls |-> <<Call("setJointMotorControl2",
                          [jointIndex |-> joint_id,
                           controlMode |-> "TORQUE_CONTROL",
                           force |-> force])>>,
         ret |-> Ok(None)]

set_joint_torque(name, force) ==
    IF name \notin DOMAIN joints
    THEN [calls |-> <<>>, ret |-> KeyError(name)]
    ELSE LET joint_id == joints[name]
         IN  [calls |-> <<Call("setJointMotorControl2",
                               [jointIndex |-> joint_id,
                                controlMode |-> "TORQUE_CONTROL",
                                force |-> force])>>,
              ret |-> Ok(None)]

----
\* Robot.bring_on_the_ground

\* self.links.keys(): insertion order, the root first and then the child link
\* of each joint by index (link names of one body are distinct).
LinkKeys ==
    [i \in 1..Cardinality(DOMAIN links) |->
        CHOOSE k \in DOMAIN links : links[k] = i - 2]

\* The generator of line 170: one link_state call per key.
LinkHeights ==
    [i \in 1..Len(LinkKeys) |->
        link_state(LinkKeys[i], FALSE).ret.value.pose.vector[3]]

RECURSIVE LinkCalls(_)
LinkCalls(i) ==
    IF i = 0 THEN <<>>
    ELSE LinkCalls(i - 1) \o link_state(LinkKeys[i], FALSE).calls

\* ground_reset without the sign change of h.
ground_reset_unsigned(h, padding) ==
    Call("resetBasePositionAndOrientation",
         [posObj |-> <<0, 0, h + padding>>, ornObj |-> <<0, 0, 0, 1>>])

ground_reset(h, padding) ==
    Call("resetBasePositionAndOrientation",
         [posObj |-> <<0, 0, -h + padding>>, ornObj |-> <<0, 0, 0, 1>>])

\* bring_on_the_ground refusing a lowest point of exactly zero.
bring_on_the_ground_strict(padding) ==
    LET h == Min({LinkHeights[i] : i \in 1..Len(LinkKeys)})
        queries == LinkCalls(Len(LinkKeys))
    IN  IF h >= 0
        THEN [calls |-> queries,
              ret |-> Raise("RuntimeError", "Robot is already on the ground")]
        ELSE [calls |-> Append(queries, ground_reset(h, padding)),
              ret |-> Ok(None)]

bring_on_the_ground(padding) ==
    LET h == Min({LinkHeights[i] : i \in 1..Len(LinkKeys)})
        queries == LinkCalls(Len(LinkKeys))
    IN  IF h > 0
        THEN [calls |-> queries,
              ret |-> Raise("RuntimeError", "Robot is already on the ground")]
        ELSE [calls |-> Append(queries, ground_reset(h, padding)),
              ret |-> Ok(None)]

----
\* DynamicsInfo and Robot.dynamics_info

DynamicsInfo(r) ==
    [mass |-> r[1],
     lateral_friction |-> r[2],
     local_inertia_diagonal |-> r[3],
     local_inertial_position |-> r[4],
     local_inertial_orientation |-> r[5],
     restitution |-> r[6],
     rolling_friction |-> r[7],
     spinning_friction |-> r[8],
     contact_damping |-> Some(r[9]),
     contact_stiffness |-> Some(r[10])]

\* normalize clearing both fields as soon as the damping is the sentinel.
normalize_together(info) ==
    IF info.contact_damping = Some(-1)
    THEN [info EXCEPT !.contact_damping = None, !.contact_stiffness = None]
    ELSE info

normalize(info) ==
    LET a == IF info.contact_damping = Some(-1)
             THEN [info EXCEPT !.contact_damping = None]
             ELSE info
    IN  IF a.contact_stiffness = Some(-1)
        THEN [a EXCEPT !.contact_stiffness = None]
        ELSE a

dynamics_info(name) ==
    IF name \notin DOMAIN links
    THEN [calls |-> <<>>, ret |-> KeyError(name)]
    ELSE LET link_id == links[name]
             r == getDynamicsInfo(link_id)
         IN  [calls |-> <<Call("getDynamicsInfo", [linkIndex |-> link_id])>>,
              ret |-> Ok(normalize(DynamicsInfo(r)))]

----
\* SetDynamicsParams and Robot.set_dynamics.  Field names are sequences of
\* characters, so that the renaming of to_bullet_kwargs is computed.

F_mass ==
    <<"m", "a", "s", "s">>
F_lateral_friction ==
    <<"l", "a", "t", "e", "r", "a", "l", "_", "f", "r", "i", "c", "t", "i", "o", "n">>
F_local_inertia_diagonal ==
    <<"l", "o", "c", "a", "l", "_", "i", "n", "e", "r", "t", "i", "a", "_", "d", "i", "a", "g", "o", "n", "a", "l">>
F_restitution ==
    <<"r", "e", "s", "t", "i", "t", "u", "t", "i", "o", "n">>
F_rolling_friction ==
    <<"r", "o", "l", "l", "i", "n", "g", "_", "f", "r", "i", "c", "t", "i", "o", "n">>
F_spinning_friction ==
    <<"s", "p", "i", "n", "n", "i", "n", "g", "_", "f", "r", "i", "c", "t", "i", "o", "n">>
F_linear_damping ==
    <<"l", "i", "n", "e", "a", "r", "_", "d", "a", "m", "p", "i", "n", "g">>
F_angular_damping ==
    <<"a", "n", "g", "u", "l", "a", "r", "_", "d", "a", "m", "p", "i", "n", "g">>
F_friction_anchor ==
    <<"f", "r", "i", "c", "t", "i", "o", "n", "_", "a", "n", "c", "h", "o", "r">>
F_contact_damping ==
    <<"c", "o", "n", "t", "a", "c", "t", "_", "d", "a", "m", "p", "i", "n", "g">>
F_contact_stiffness ==
    <<"c", "o", "n", "t", "a", "c", "t", "_", "s", "t", "i", "f", "f", "n", "e", "s", "s">>

FieldOrder ==
    <<F_mass,
      F_lateral_friction,
      F_local_inertia_diagonal,
      F_restitution,
      F_rolling_friction,
      F_spinning_friction,
      F_linear_damping,
      F_angular_damping,
      F_friction_anchor,
      F_contact_damping,
      F_contact_stiffness>>

Fields == {FieldOrder[i] : i \in 1..Len(FieldOrder)}

Lower ==
    <<"a", "b", "c", "d", "e", "f", "g", "h", "i", "j", "k", "l", "m", "n", "o", "p", "q", "r", "s", "t", "u", "v", "w", "x", "y", "z">>
Upper ==
    <<"A", "B", "C", "D", "E", "F", "G", "H", "I", "J", "K", "L", "M", "N", "O", "P", "Q", "R", "S", "T", "U", "V", "W", "X", "Y", "Z">>

\* str.upper() of one character.
upper(c) ==
    IF \E i \in 1..Len(Lower) : Lower[i] = c
    THEN Upper[CHOOSE i \in 1..Len(Lower) : Lower[i] = c]
    ELSE c

\* re.sub('_(.)', lambda p: p[1].upper(), s), scanning s from position i.
RECURSIVE convert_from(_, _)
convert_from(s, i) ==
    IF i > Len(s) THEN <<>>
    ELSE IF s[i] = "_" /\ i < Len(s)
         THEN <<upper(s[i + 1])>> \o convert_from(s, i + 2)
         ELSE <<s[i]>> \o convert_from(s, i + 1)

convert(s) == convert_from(s, 1)

\* SetDynamicsParams(**kwargs): the fields not given default to None.
SetDynamicsParams(kwargs) ==
    [f \in Fields |-> IF f \in DOMAIN kwargs THEN Some(kwargs[f]) ELSE None]

\* The dict comprehension of to_bullet_kwargs over the first i fields.
RECURSIVE bullet_kwargs_upto(_, _)
bullet_kwargs_upto(p, i) ==
    IF i = 0 THEN <<>>
    ELSE LET k == FieldOrder[i]
             before == bullet_kwargs_upto(p, i - 1)
         IN  IF p[k] # None
             THEN (convert(k) :> p[k][1]) @@ before
             ELSE before

to_bullet_kwargs(p) == bullet_kwargs_upto(p, Len(FieldOrder))

\* update keeping the entries `d` already has.
update_keeps(d, other) == d @@ other

\* dict.update: the entries of `other` replace those of `d`.
update(d, other) == other @@ d

merge_args(params, kw_params) ==
    IF params # None
    THEN update(to_bullet_kwargs(params[1]), to_bullet_kwargs(kw_params))
    ELSE to_bullet_kwargs(kw_params)

set_dynamics(name, params, kwargs) ==
    IF name \notin DOMAIN links
    THEN [calls |-> <<>>, ret |-> KeyError(name)]
    ELSE LET link_id == links[name]
             kw_params == SetDynamicsParams(kwargs)
             bullet_args == merge_args(params, kw_params)
         IN  [calls |-> <<Call("changeDynamics",
                               [linkIndex |-> link_id,
                                kwargs |-> bullet_args])>>,
              ret |-> Ok(None)]

----
\* The calls a client makes, with their arguments drawn from small sets.

\* The fields a client sets: the first NumVaryFields of this order.
VaryOrder ==
    <<F_lateral_friction, F_contact_damping, F_mass, F_friction_anchor,
      F_restitution, F_contact_stiffness>>
VaryFields == {VaryOrder[i] : i \in 1..NumVaryFields}

\* Keyword arguments and params records over the fields D, each field set
\* to v or left out.
DictsOver(D, v) == UNION {[E -> {v}] : E \in SUBSET D}
ParamsOver(D, v) ==
    {None} \cup {Some(SetDynamicsParams(d)) : d \in DictsOver(D, v)}

\* A body the engine has loaded, and a handle not yet constructed over it.
Start(positions, orientations, velocities, contacts) ==
    /\ nr_joints \in 0..MaxJoints
    /\ basePos \in positions
    /\ baseOrn \in orientations
    /\ baseVel \in velocities
    /\ contact \in contacts
    /\ joints = <<>>
    /\ links = <<>>
    /\ root_link = ""
    /\ pc = "new"
    /\ op = [name |-> "", args |-> <<>>]
    /\ calls = <<>>
    /\ ret = Ok(None)

AtRest == <<<<0, 0, 0>>, <<0, 0, 0>>>>

JointStateCall ==
    \E name \in Names :
        Do([name |-> "joint_state", args |-> <<name>>], joint_state(name))

LinkStateCall ==
    \E name \in Names, compute_velocity \in BOOLEAN :
        Do([name |-> "link_state", args |-> <<name, compute_velocity>>],
           link_state(name, compute_velocity))

SetJointPositionCall ==
    \E name \in Names :
        Do([name |-> "set_joint_position", args |-> <<name, 1>>],
           set_joint_position(name, 1, DefaultKp, DefaultKd, DefaultForce))

SetJointVelocityCall ==
    \E name \in Names :
        Do([name |-> "set_joint_velocity", args |-> <<name, 1>>],
           set_joint_velocity(name, 1, DefaultForce))

SetJointTorqueCall ==
    \E name \in Names :
        Do([name |-> "set_joint_torque", args |-> <<name, 1>>],
           set_joint_torque(name, 1))

BringOnTheGroundCall ==
    \E padding \in Paddings :
        Do([name |-> "bring_on_the_ground", args |-> <<padding>>],
           bring_on_the_ground(padding))

DynamicsInfoCall ==
    \E name \in Names :
        Do([name |-> "dynamics_info", args |-> <<name>>], dynamics_info(name))

SetDynamicsCall(D) ==
    \E name \in Names, params \in ParamsOver(D, 1), kwargs \in DictsOver(D, 2) :
        Do([name |-> "set_dynamics", args |-> <<name, params, kwargs>>],
           set_dynamics(name, params, kwargs))

\* Every method, on bodies at rest and upright.
Init == Start(BasePositions, {Identity}, {AtRest}, {<<-1, -1>>})

Next ==
    \/ post_init
    \/ JointStateCall
    \/ LinkStateCall
    \/ SetJointPositionCall
    \/ SetJointVelocityCall
    \/ SetJointTorqueCall
    \/ BringOnTheGroundCall
    \/ DynamicsInfoCall
    \/ SetDynamicsCall({F_mass})

Spec == Init /\ [][Next]_vars

\* The pose queries and the base reset, on bodies in every pose and motion.
InitKinematics ==
    Start(BasePositions, {Identity, FlipX}, Velocities, {<<-1, -1>>})

NextKinematics ==
    \/ post_init
    \/ LinkStateCall
    \/ BringOnTheGroundCall

SpecKinematics == InitKinematics /\ [][NextKinematics]_vars

\* set_dynamics, over every combination of the fields a client sets.
InitDynamics == Start({<<0, 0, 0>>}, {Identity}, {AtRest}, {<<-1, -1>>})

NextDynamics ==
    \/ post_init
    \/ SetDynamicsCall(VaryFields)

SpecDynamics == InitDynamics /\ [][NextDynamics]_vars

\* dynamics_info, over every contact setting of the engine.
InitInfo == Start({<<0, 0, 0>>}, {Identity}, {AtRest}, Contacts)

NextInfo ==
    \/ post_init
    \/ DynamicsInfoCall

SpecInfo == InitInfo /\ [][NextInfo]_vars

----
\* Properties.

LinkIds == -1..(nr_joints - 1)

\* The world height of a link, from the engine's state.
HeightOf(i) == IF i = -1 THEN basePos[3] ELSE LinkWorldPosition(i)[3]
LowestPoint == Min({HeightOf(i) : i \in LinkIds})

Fns(cs) == {cs[i].fn : i \in 1..Len(cs)}

Called(name) == pc = "ready" /\ op.name = name
Calling(name) == pc = "ready" /\ op'.name = name

\* The engine's argument name of each SetDynamicsParams field.
EngineName ==
    (F_mass :>
          <<"m", "a", "s", "s">>)
    @@ (F_lateral_friction :>
          <<"l", "a", "t", "e", "r", "a", "l", "F", "r", "i", "c", "t", "i", "o", "n">>)
    @@ (F_local_inertia_diagonal :>
          <<"l", "o", "c", "a", "l", "I", "n", "e", "r", "t", "i", "a", "D", "i", "a", "g", "o", "n", "a", "l">>)
    @@ (F_restitution :>
          <<"r", "e", "s", "t", "i", "t", "u", "t", "i", "o", "n">>)
    @@ (F_rolling_friction :>
          <<"r", "o", "l", "l", "i", "n", "g", "F", "r", "i", "c", "t", "i", "o", "n">>)
    @@ (F_spinning_friction :>
          <<"s", "p", "i", "n", "n", "i", "n", "g", "F", "r", "i", "c", "t", "i", "o", "n">>)
    @@ (F_linear_damping :>
          <<"l", "i", "n", "e", "a", "r", "D", "a", "m", "p", "i", "n", "g">>)
    @@ (F_angular_damping :>
          <<"a", "n", "g", "u", "l", "a", "r", "D", "a", "m", "p", "i", "n", "g">>)
    @@ (F_friction_anchor :>
          <<"f", "r", "i", "c", "t", "i", "o", "n", "A", "n", "c", "h", "o", "r">>)
    @@ (F_contact_damping :>
          <<"c", "o", "n", "t", "a", "c", "t", "D", "a", "m", "p", "i", "n", "g">>)
    @@ (F_contact_stiffness :>
          <<"c", "o", "n", "t", "a", "c", "t", "S", "t", "i", "f", "f", "n", "e", "s", "s">>)

\* C1: set_dynamics on a known link issues exactly one changeDynamics call,
\* for that link, whose keyword arguments are the merge of params and the
\* overrides: for every field the override's value if the override sets it,
\* else params' value if params sets it, else no argument at all.
C1_SetDynamicsMerge ==
    (Called("set_dynamics") /\ op.args[1] \in DOMAIN links) =>
        LET params == op.args[2]
            kwargs == op.args[3]
            sent == calls[1].args.kwargs
        IN  /\ ret.kind = "ok"
            /\ Len(calls) = 1
            /\ calls[1].fn = "changeDynamics"
            /\ calls[1].args.linkIndex = links[op.args[1]]
            /\ DOMAIN sent \subseteq {EngineName[f] : f \in Fields}
            /\ \A f \in Fields :
                 IF f \in DOMAIN kwargs
                 THEN /\ EngineName[f] \in DOMAIN sent
                      /\ sent[EngineName[f]] = kwargs[f]
                 ELSE IF params # None /\ params[1][f] # None
                 THEN /\ EngineName[f] \in DOMAIN sent
                      /\ sent[EngineName[f]] = params[1][f][1]
                 ELSE EngineName[f] \notin DOMAIN sent

\* A call where params and an override set the same field.
C1_Witness ==
    /\ Called("set_dynamics")
    /\ ret.kind = "ok"
    /\ op.args[2] # None
    /\ \E f \in DOMAIN op.args[3] :
         /\ op.args[2][1][f] # None
         /\ op.args[2][1][f][1] # op.args[3][f]
         /\ calls[1].args.kwargs[EngineName[f]] = op.args[3][f]

\* C2: link_state of the root link takes the pose from the base-pose query
\* and never issues the per-link query, with or without velocities; for any
\* other link it issues the per-link query for that link and never the
\* base-pose query.
C2_RootUsesBasePose ==
    (Called("link_state") /\ op.args[1] \in DOMAIN links) =>
        LET link_id == links[op.args[1]]
        IN  /\ ret.kind = "ok"
            /\ IF link_id = ROOT
               THEN /\ "getBasePositionAndOrientation" \in Fns(calls)
                    /\ "getLinkState" \notin Fns(calls)
                    /\ ret.value.pose = Pose(basePos, baseOrn)
               ELSE /\ "getLinkState" \in Fns(calls)
                    /\ "getBasePositionAndOrientation" \notin Fns(calls)
                    /\ \A i \in 1..Len(calls) :
                         calls[i].fn = "getLinkState"
                             => calls[i].args.linkIndex = link_id
                    /\ ret.value.pose =
                           Pose(LinkWorldPosition(link_id), baseOrn)

\* The root link queried with velocities.
C2_Witness ==
    /\ Called("link_state")
    /\ op.args = <<"base", TRUE>>
    /\ ret.kind = "ok"
    /\ ret.value.pose = Pose(basePos, baseOrn)
    /\ nr_joints > 0

\* C3: for every known link name, link_state without compute_velocity
\* returns both velocities absent (None), and with compute_velocity returns
\* both populated with the engine's 3-component velocity vectors.
C3_VelocityPresence ==
    (Called("link_state") /\ op.args[1] \in DOMAIN links) =>
        /\ ret.kind = "ok"
        /\ ~op.args[2] =>
             /\ ret.value.linear_velocity = None
             /\ ret.value.angular_velocity = None
        /\ op.args[2] =>
             /\ ret.value.linear_velocity # None
             /\ ret.value.angular_velocity # None
             /\ Len(ret.value.linear_velocity[1]) = 3
             /\ Len(ret.value.angular_velocity[1]) = 3
             /\ {ret.value.linear_velocity[1], ret.value.angular_velocity[1]}
                    = {baseVel[1], baseVel[2]}

\* A moving body's link queried without velocities.
C3_Witness ==
    /\ Called("link_state")
    /\ op.args[1] \in DOMAIN links
    /\ ~op.args[2]
    /\ baseVel # AtRest
    /\ ret.value.linear_velocity = None

\* C4: whenever bring_on_the_ground(padding) succeeds, the lowest point of
\* the body immediately afterwards is at padding, whatever the pose before.
C4_LowestPointAtPadding ==
    (Called("bring_on_the_ground") /\ ret.kind = "ok") =>
        LowestPoint = op.args[1]

\* C5: when the lowest point h is <= 0, bring_on_the_ground(padding) issues
\* exactly one base-pose reset, to position (0, 0, -h + padding) and
\* orientation (0, 0, 0, 1); h = -30 and padding = 5 give height 35.
C5_ResetPose ==
    [][(Calling("bring_on_the_ground") /\ LowestPoint <= 0) =>
          /\ Cardinality(ResetCalls(calls')) = 1
          /\ \A i \in ResetCalls(calls') :
               /\ calls'[i].args.posObj
                      = <<0, 0, (-LowestPoint) + op'.args[1]>>
               /\ calls'[i].args.ornObj = <<0, 0, 0, 1>>
               /\ (LowestPoint = -30 /\ op'.args[1] = 5)
                      => calls'[i].args.posObj = <<0, 0, 35>>
          /\ basePos' = <<0, 0, (-LowestPoint) + op'.args[1]>>
          /\ baseOrn' = <<0, 0, 0, 1>>]_vars

\* The scenario: a body that was 30 below zero, brought up with padding 5.
C5_Witness ==
    /\ Called("bring_on_the_ground")
    /\ ret.kind = "ok"
    /\ op.args = <<5>>
    /\ basePos = <<0, 0, 35>>
    /\ baseOrn = Identity
    /\ LowestPoint = 5

\* C6: bring_on_the_ground fails with "already on the ground" exactly when
\* the lowest point is strictly above zero, and then issues no base-pose
\* reset and leaves the base pose as it was; a lowest point of exactly zero
\* does not fail.
C6_AlreadyOnGround ==
    [][Calling("bring_on_the_ground") =>
          /\ (ret'.kind = "RuntimeError") <=> (LowestPoint > 0)
          /\ (ret'.kind = "ok") <=> (LowestPoint <= 0)
          /\ ret'.kind = "RuntimeError" =>
               /\ ret'.value = "Robot is already on the ground"
               /\ ResetCalls(calls') = {}
               /\ UNCHANGED <<basePos, baseOrn>>]_vars

\* A refused call on a body whose lowest point is above zero.
C6_Witness ==
    /\ Called("bring_on_the_ground")
    /\ ret.kind = "RuntimeError"
    /\ LowestPoint > 0
    /\ nr_joints > 0

\* C7: after construction over a body with N joints, joints maps the name of
\* joint i to i and links maps the root link name to -1 and the child link
\* name of joint i to i, N and N + 1 entries; root "base" with joint "hinge"
\* to link "arm" gives {"hinge": 0} and {"base": -1, "arm": 0}; no method
\* changes the mappings afterwards.
C7_Mappings ==
    pc = "ready" =>
        /\ DOMAIN joints = {JointNameTable[i + 1] : i \in 0..(nr_joints - 1)}
        /\ DOMAIN links =
               {"base"} \cup {LinkNameTable[i + 1] : i \in 0..(nr_joints - 1)}
        /\ \A i \in 0..(nr_joints - 1) :
               /\ joints[JointNameTable[i + 1]] = i
               /\ links[LinkNameTable[i + 1]] = i
        /\ links["base"] = -1
        /\ root_link = "base"
        /\ Cardinality(DOMAIN joints) = nr_joints
        /\ Cardinality(DOMAIN links) = nr_joints + 1
        /\ nr_joints = 1 =>
               /\ joints = ("hinge" :> 0)
               /\ links = ("base" :> -1) @@ ("arm" :> 0)

\* The one-joint scenario, after a method has run on the handle.
C7_Witness ==
    /\ pc = "ready"
    /\ nr_joints = 1
    /\ joints = ("hinge" :> 0)
    /\ links = ("base" :> -1) @@ ("arm" :> 0)
    /\ op.name = "bring_on_the_ground"

JointKeyed ==
    {"joint_state", "set_joint_position", "set_joint_velocity",
     "set_joint_torque"}
LinkKeyed == {"link_state", "dynamics_info", "set_dynamics"}

\* C8: every name-keyed method called with a name its mapping does not hold
\* fails with a key-not-found error before any engine call is issued, and
\* leaves the engine's state and the handle's mappings unchanged.
C8_UnknownName ==
    [][(/\ pc = "ready"
        /\ \/ op'.name \in JointKeyed /\ op'.args[1] \notin DOMAIN joints
           \/ op'.name \in LinkKeyed /\ op'.args[1] \notin DOMAIN links) =>
          /\ ret' = KeyError(op'.args[1])
          /\ calls' = <<>>
          /\ UNCHANGED <<engine, handle>>]_vars

\* A torque command for a joint the body does not have.
C8_Witness ==
    /\ Called("set_joint_torque")
    /\ op.args[1] \notin DOMAIN joints
    /\ ret.kind = "KeyError"
    /\ calls = <<>>

\* C9: dynamics_info of a known link returns the engine's tuple field for
\* field, except that contact_damping and contact_stiffness are each None
\* exactly when the engine reports -1 for that field; any other value, 0
\* included, passes through, and the two fields are treated independently.
C9_DynamicsInfo ==
    (Called("dynamics_info") /\ op.args[1] \in DOMAIN links) =>
        LET r == getDynamicsInfo(links[op.args[1]])
            info == ret.value
        IN  /\ ret.kind = "ok"
            /\ calls = <<Call("getDynamicsInfo",
                              [linkIndex |-> links[op.args[1]]])>>
            /\ info.mass = r[1]
            /\ info.lateral_friction = r[2]
            /\ info.local_inertia_diagonal = r[3]
            /\ info.local_inertial_position = r[4]
            /\ info.local_inertial_orientation = r[5]
            /\ info.restitution = r[6]
            /\ info.rolling_friction = r[7]
            /\ info.spinning_friction = r[8]
            /\ info.contact_damping =
                   (IF contact[1] = -1 THEN None ELSE Some(contact[1]))
            /\ info.contact_stiffness =
                   (IF contact[2] = -1 THEN None ELSE Some(contact[2]))

\* The damping unset and the stiffness 0 in one answer.
C9_Witness ==
    /\ Called("dynamics_info")
    /\ ret.kind = "ok"
    /\ contact = <<-1, 0>>
    /\ ret.value.contact_damping = None
    /\ ret.value.contact_stiffness = Some(0)

\* C10: for every link, the root included, link_state with compute_velocity
\* puts the engine's linear velocity in linear_velocity and its angular
\* velocity in angular_velocity; neither path swaps the two.
C10_VelocityOrder ==
    (Called("link_state") /\ op.args[1] \in DOMAIN links /\ op.args[2]) =>
        /\ ret.value.linear_velocity = Some(baseVel[1])
        /\ ret.value.angular_velocity = Some(baseVel[2])

====
